---- MODULE Spec2Model ----
(***************************************************************************)
(* Model of src/script.js: a browser-resident social feed.  Posts, likes   *)
(* and comments live in localStorage; currentUserId, currentPostId and     *)
(* uploadedImage are script globals; the handlers run to completion on the *)
(* browser's event loop, one per step.                                     *)
(*                                                                         *)
(* The listeners are registered once, in setupEventListeners, and the      *)
(* inline onclick attributes call global functions: no handler asks        *)
(* whether a modal is open, so the controls of the page (reachable by      *)
(* keyboard focus) stay live behind an open modal.  The buttons inside the *)
(* comment modal are taken to be clickable only while it is shown.         *)
(* The feed is rendered again by every handler that writes posts, likes    *)
(* or comments and by the user switch, so its cards are read off `posts`.  *)
(***************************************************************************)
EXTENDS Integers, Sequences, FiniteSets, TLC

\* ---------------------------------------------------------------- bounds
MaxClock == 2       \* Date.now() takes the values 1..MaxClock
MaxEvents == 6      \* user events handled in one session
MaxTextLen == 2     \* length of a typed text
MaxReads == 1       \* FileReaders in flight

\* ---------------------------------------------------------------- constants
Users == {1, 2, 3}            \* ids of the users array
DefaultUser == 1              \* let currentUserId = 1
NoId == 0                     \* null / undefined where an id is expected
NoImage == "null"             \* uploadedImage = null
Image == "data:image"         \* e.target.result of the FileReader
Chars == {" ", "x"}

Texts == UNION {[1..n -> Chars] : n \in 0..MaxTextLen}

\* String.prototype.trim
RECURSIVE TrimLeft(_)
TrimLeft(s) == IF s # <<>> /\ Head(s) = " " THEN TrimLeft(Tail(s)) ELSE s

RECURSIVE TrimRight(_)
TrimRight(s) ==
    IF s # <<>> /\ s[Len(s)] = " " THEN TrimRight(SubSeq(s, 1, Len(s) - 1)) ELSE s

\* the text used as typed
NoTrim(s) == s

Trim(s) == TrimRight(TrimLeft(s))

\* ---------------------------------------------------------------- state
VARIABLES
    posts,              \* localStorage 'posts': array, newest first
    likes,              \* localStorage 'likes': postId -> array of userId
    comments,           \* localStorage 'comments': postId -> array of comment
    currentUserId,
    currentPostId,
    uploadedImage,
    now,                \* the value Date.now() returns
    pendingReads,       \* FileReaders whose onload has not fired yet
    commentModal,       \* #commentModal has class 'active'
    commentDom,         \* #commentsList: one entry per rendered comment div
    profileModal,       \* #userProfileModal has class 'active'
    modalStats,         \* counts shown in the profile modal, and their user
    sideStats,          \* counts shown in the left sidebar
    last,               \* the handler that ran last and how it ended
    events,             \* user events handled so far
    likedFrom           \* history: for each like still in place, the members
                        \* of likes[postId] just before it was given

vars == <<posts, likes, comments, currentUserId, currentPostId, uploadedImage,
          now, pendingReads, commentModal, commentDom, profileModal,
          modalStats, sideStats, last, events,
          likedFrom>>

store == <<posts, likes, comments>>
session == <<currentUserId, currentPostId, uploadedImage>>
profileUi == <<profileModal, modalStats>>

\* ---------------------------------------------------------------- helpers
\* likes[id] / comments[id] with the "|| []" default
Entry(f, id) == IF id \in DOMAIN f THEN f[id] ELSE <<>>

\* f with f[id] := v, creating the key when absent
Put(f, id, v) == [k \in (DOMAIN f) \cup {id} |-> IF k = id THEN v ELSE f[k]]

\* the least member of a set of indexes, 0 (for -1 / undefined) when empty
First(S) == IF S = {} THEN 0 ELSE CHOOSE i \in S : \A j \in S : i <= j

\* Array.prototype.indexOf: first index of x in s
IndexOf(s, x) == First({i \in 1..Len(s) : s[i] = x})

\* Array.prototype.find / findIndex with (e => e.id === id)
IndexOfId(s, id) == First({i \in 1..Len(s) : s[i].id = id})

Range(s) == {s[i] : i \in 1..Len(s)}

\* Array.prototype.splice(i, 1)
RemoveAt(s, i) == SubSeq(s, 1, i - 1) \o SubSeq(s, i + 1, Len(s))

RECURSIVE SumLen(_, _, _)
\* sum of f[post.id].length over the posts of s that belong to u
SumLen(s, f, u) ==
    IF s = <<>> THEN 0
    ELSE (IF Head(s).userId = u THEN Len(Entry(f, Head(s).id)) ELSE 0)
         + SumLen(Tail(s), f, u)

PostCount(ps, u) == Cardinality({i \in 1..Len(ps) : ps[i].userId = u})

\* the three counts updateCurrentUserProfile and showUserProfile compute
Stats(ps, ls, cs, u) ==
    [posts |-> PostCount(ps, u), likes |-> SumLen(ps, ls, u),
     comments |-> SumLen(ps, cs, u)]

Done(op, result) == [op |-> op, result |-> result]

\* ---------------------------------------------------------------- Init
EmptyMap == [k \in {} |-> <<>>]

Init ==
    /\ posts = <<>>
    /\ likes = EmptyMap
    /\ comments = EmptyMap
    /\ currentUserId = DefaultUser
    /\ currentPostId = NoId
    /\ uploadedImage = NoImage
    /\ now = 1
    /\ pendingReads = 0
    /\ commentModal = FALSE
    /\ commentDom = <<>>
    /\ profileModal = FALSE
    /\ modalStats = [user |-> NoId, posts |-> 0, likes |-> 0, comments |-> 0]
    /\ sideStats = Stats(<<>>, EmptyMap, EmptyMap, DefaultUser)
    /\ last = Done("init", "ok")
    /\ events = 0
    /\ likedFrom = {}

\* ---------------------------------------------------------------- posts
\* Array.prototype.push in place of unshift
Push(ps, p) == Append(ps, p)

\* Array.prototype.unshift
Unshift(ps, p) == <<p>> \o ps

NewPost(content) ==
    [id |-> now, userId |-> currentUserId, content |-> content,
     image |-> uploadedImage, timestamp |-> now, isShared |-> FALSE,
     originalPostId |-> NoId, originalUserId |-> NoId]

\* createPost with `text` in the #postContent textarea
createPost(text) ==
    LET content == Trim(text) IN
    IF content = <<>> /\ uploadedImage = NoImage
    THEN /\ last' = Done("createPost", "Please write something or upload an image!")
         /\ UNCHANGED <<store, session, now, pendingReads, commentModal,
                        commentDom, profileUi, sideStats>>
    ELSE /\ posts' = Unshift(posts, NewPost(content))
         /\ uploadedImage' = NoImage
         /\ sideStats' = Stats(posts', likes, comments, currentUserId)
         /\ last' = Done("createPost", "ok")
         /\ UNCHANGED <<likes, comments, currentUserId, currentPostId, now,
                        pendingReads, commentModal, commentDom, profileUi>>

SharedPost(originalPost, originalPostId) ==
    [id |-> now, userId |-> currentUserId, content |-> originalPost.content,
     image |-> originalPost.image, timestamp |-> now, isShared |-> TRUE,
     originalPostId |-> originalPostId, originalUserId |-> originalPost.userId]

\* the duplicate check comparing p.id in place of p.originalPostId
AlreadySharedById(ps, u, originalPostId) ==
    \E i \in 1..Len(ps) :
        /\ ps[i].userId = u
        /\ ps[i].isShared
        /\ ps[i].id = originalPostId

AlreadyShared(ps, u, originalPostId) ==
    \E i \in 1..Len(ps) :
        /\ ps[i].userId = u
        /\ ps[i].isShared
        /\ ps[i].originalPostId = originalPostId

\* sharePost(originalPostId)
sharePost(originalPostId) ==
    LET idx == IndexOfId(posts, originalPostId)
        reject(msg) ==
            /\ last' = Done("sharePost", msg)
            /\ UNCHANGED <<store, session, now, pendingReads, commentModal,
                           commentDom, profileUi, sideStats>>
    IN
    IF idx = 0 THEN reject("Post not found!")
    ELSE IF posts[idx].userId = currentUserId
    THEN reject("You cannot share your own post!")
    ELSE IF AlreadyShared(posts, currentUserId, originalPostId)
    THEN reject("You have already shared this post!")
    ELSE /\ posts' = Unshift(posts, SharedPost(posts[idx], originalPostId))
         /\ sideStats' = Stats(posts', likes, comments, currentUserId)
         /\ last' = Done("sharePost", "Post shared successfully!")
         /\ UNCHANGED <<likes, comments, session, now, pendingReads,
                        commentModal, commentDom, profileUi>>

\* ---------------------------------------------------------------- likes
\* the unlike branch removing the first liker in place of the current user
ToggledLikesShift(ls, postId, u) ==
    LET cur == Entry(ls, postId)
        userIndex == IndexOf(cur, u)
    IN  IF userIndex = 0
        THEN Put(ls, postId, Append(cur, u))
        ELSE Put(ls, postId, Tail(cur))

\* the like pushed without looking for the user first
ToggledLikesPush(ls, postId, u) == Put(ls, postId, Append(Entry(ls, postId), u))

ToggledLikes(ls, postId, u) ==
    LET cur == Entry(ls, postId)
        userIndex == IndexOf(cur, u)
    IN  IF userIndex = 0
        THEN Put(ls, postId, Append(cur, u))
        ELSE Put(ls, postId, RemoveAt(cur, userIndex))

\* toggleLike(postId)
toggleLike(postId) ==
    /\ likes' = ToggledLikes(likes, postId, currentUserId)
    /\ sideStats' = Stats(posts, likes', comments, currentUserId)
    /\ last' = Done("toggleLike", "ok")
    /\ UNCHANGED <<posts, comments, session, now, pendingReads, commentModal,
                   commentDom, profileUi>>

\* ---------------------------------------------------------------- comments
\* renderComments: one div per comment of the current post; the Edit and
\* Delete buttons are written only into the current user's own comments
RenderComments(cs, postId, u) ==
    LET postComments == Entry(cs, postId) IN
    [i \in 1..Len(postComments) |->
        [id |-> postComments[i].id,
         ui |-> IF postComments[i].userId = u THEN "own" ELSE "other"]]

\* openCommentModal(postId)
openCommentModal(postId) ==
    /\ currentPostId' = postId
    /\ commentModal' = TRUE
    /\ commentDom' = RenderComments(comments, postId, currentUserId)
    /\ last' = Done("openCommentModal", "ok")
    /\ UNCHANGED <<store, currentUserId, uploadedImage, now, pendingReads,
                   profileUi, sideStats>>

\* closeCommentModal()
closeCommentModal ==
    /\ commentModal' = FALSE
    /\ currentPostId' = NoId
    /\ last' = Done("closeCommentModal", "ok")
    /\ UNCHANGED <<store, currentUserId, uploadedImage, now, pendingReads,
                   commentDom, profileUi, sideStats>>

NewComment(text) ==
    [id |-> now, userId |-> currentUserId, text |-> text, timestamp |-> now]

\* addComment with `text` in #commentInput
addComment(text) ==
    LET commentText == Trim(text) IN
    IF commentText = <<>>
    THEN /\ last' = Done("addComment", "Please write a comment!")
         /\ UNCHANGED <<store, session, now, pendingReads, commentModal,
                        commentDom, profileUi, sideStats>>
    ELSE /\ comments' = Put(comments, currentPostId,
                            Append(Entry(comments, currentPostId),
                                   NewComment(commentText)))
         /\ commentDom' = RenderComments(comments', currentPostId, currentUserId)
         /\ sideStats' = Stats(posts, likes, comments', currentUserId)
         /\ last' = Done("addComment", "ok")
         /\ UNCHANGED <<posts, likes, session, now, pendingReads, commentModal,
                        profileUi>>

\* an uncaught TypeError ends the handler; nothing was written before it
Throws(op) ==
    /\ last' = Done(op, "TypeError")
    /\ UNCHANGED <<store, session, now, pendingReads, commentModal, commentDom,
                   profileUi, sideStats>>

\* startEditComment(commentId)
startEditComment(commentId) ==
    IF currentPostId \notin DOMAIN comments THEN Throws("startEditComment")
    ELSE
    LET postComments == comments[currentPostId]
        found == IndexOfId(postComments, commentId)
        div == IndexOfId(commentDom, commentId)
    IN  IF found = 0 \/ div = 0 THEN Throws("startEditComment")
        ELSE /\ commentDom' = [commentDom EXCEPT ![div].ui = "edit"]
             /\ last' = Done("startEditComment", "ok")
             /\ UNCHANGED <<store, session, now, pendingReads, commentModal,
                            profileUi, sideStats>>

\* saveEditComment(commentId) with `text` in the #edit-<commentId> textarea
saveEditComment(commentId, text) ==
    LET newText == Trim(text)
        form == First({i \in 1..Len(commentDom) :
                         commentDom[i].id = commentId /\ commentDom[i].ui = "edit"})
    IN
    IF form = 0 THEN Throws("saveEditComment")
    ELSE IF newText = <<>>
    THEN /\ last' = Done("saveEditComment", "Comment cannot be empty!")
         /\ UNCHANGED <<store, session, now, pendingReads, commentModal,
                        commentDom, profileUi, sideStats>>
    ELSE IF currentPostId \notin DOMAIN comments THEN Throws("saveEditComment")
    ELSE
    LET postComments == comments[currentPostId]
        found == IndexOfId(postComments, commentId)
    IN  IF found = 0 THEN Throws("saveEditComment")
        ELSE /\ comments' = [comments EXCEPT
                                ![currentPostId][found].text = newText]
             /\ commentDom' = RenderComments(comments', currentPostId,
                                             currentUserId)
             /\ last' = Done("saveEditComment", "ok")
             /\ UNCHANGED <<posts, likes, session, now, pendingReads,
                            commentModal, profileUi, sideStats>>

\* deleteComment(commentId); `confirmed` is the answer to confirm()
deleteComment(commentId, confirmed) ==
    IF ~confirmed
    THEN /\ last' = Done("deleteComment", "cancelled")
         /\ UNCHANGED <<store, session, now, pendingReads, commentModal,
                        commentDom, profileUi, sideStats>>
    ELSE IF currentPostId \notin DOMAIN comments THEN Throws("deleteComment")
    ELSE
    LET postComments == comments[currentPostId]
        index == IndexOfId(postComments, commentId)
    IN  IF index = 0
        THEN /\ last' = Done("deleteComment", "absent")
             /\ UNCHANGED <<store, session, now, pendingReads, commentModal,
                            commentDom, profileUi, sideStats>>
        ELSE /\ comments' = [comments EXCEPT
                                ![currentPostId] = RemoveAt(postComments, index)]
             /\ commentDom' = RenderComments(comments', currentPostId,
                                             currentUserId)
             /\ sideStats' = Stats(posts, likes, comments', currentUserId)
             /\ last' = Done("deleteComment", "ok")
             /\ UNCHANGED <<posts, likes, session, now, pendingReads,
                            commentModal, profileUi>>

\* the Cancel button of an edit form: onclick="renderComments()"
cancelEdit ==
    /\ commentDom' = RenderComments(comments, currentPostId, currentUserId)
    /\ last' = Done("renderComments", "ok")
    /\ UNCHANGED <<store, session, now, pendingReads, commentModal, profileUi,
                   sideStats>>

\* ---------------------------------------------------------------- profile
\* showUserProfile(userId)
showUserProfile(userId) ==
    /\ modalStats' = [user |-> userId] @@ Stats(posts, likes, comments, userId)
    /\ profileModal' = TRUE
    /\ last' = Done("showUserProfile", "ok")
    /\ UNCHANGED <<store, session, now, pendingReads, commentModal, commentDom,
                   sideStats>>

\* closeUserProfileModal()
closeUserProfileModal ==
    /\ profileModal' = FALSE
    /\ last' = Done("closeUserProfileModal", "ok")
    /\ UNCHANGED <<store, session, now, pendingReads, commentModal, commentDom,
                   modalStats, sideStats>>

\* the listeners on .close-modal buttons and on the .modal backdrops: both
\* only remove the class 'active' from the modal
HideModal(op, modal) ==
    /\ IF modal = "commentModal"
       THEN commentModal' = FALSE /\ UNCHANGED profileModal
       ELSE profileModal' = FALSE /\ UNCHANGED commentModal
    /\ last' = Done(op, "ok")
    /\ UNCHANGED <<store, session, now, pendingReads, commentDom, modalStats,
                   sideStats>>

\* ---------------------------------------------------------------- images
FileTypes == {"image/png", "text/plain"}

IsImageType(t) == t = "image/png"       \* file.type.startsWith('image/')

\* handleImageUpload with a file of type t selected
handleImageUpload(t) ==
    IF ~IsImageType(t)
    THEN /\ last' = Done("handleImageUpload", "Please upload an image file!")
         /\ UNCHANGED <<store, session, now, pendingReads, commentModal,
                        commentDom, profileUi, sideStats>>
    ELSE /\ pendingReads < MaxReads
         /\ pendingReads' = pendingReads + 1
         /\ last' = Done("handleImageUpload", "ok")
         /\ UNCHANGED <<store, session, now, commentModal, commentDom,
                        profileUi, sideStats>>

\* reader.onload
readerOnload ==
    /\ pendingReads > 0
    /\ pendingReads' = pendingReads - 1
    /\ uploadedImage' = Image
    /\ last' = Done("reader.onload", "ok")
    /\ UNCHANGED <<store, currentUserId, currentPostId, now, commentModal,
                   commentDom, profileUi, sideStats>>

\* removeImage()
removeImage ==
    /\ uploadedImage' = NoImage
    /\ last' = Done("removeImage", "ok")
    /\ UNCHANGED <<store, currentUserId, currentPostId, now, pendingReads,
                   commentModal, commentDom, profileUi, sideStats>>

\* ---------------------------------------------------------------- session
\* 'change' listener of the #currentUser dropdown
changeUser(u) ==
    /\ u # currentUserId
    /\ currentUserId' = u
    /\ sideStats' = Stats(posts, likes, comments, u)
    /\ last' = Done("changeUser", "ok")
    /\ UNCHANGED <<store, currentPostId, uploadedImage, now, pendingReads,
                   commentModal, commentDom, profileUi>>

\* time passes between two handlers
Tick ==
    /\ now < MaxClock
    /\ now' = now + 1
    /\ UNCHANGED <<store, session, pendingReads, commentModal, commentDom,
                   profileUi, sideStats, last, events, likedFrom>>

\* ---------------------------------------------------------------- events
\* the post cards renderFeed writes: one per post, a Share button on the
\* cards of posts that are not shared
Cards == 1..Len(posts)
ShareCards == {i \in Cards : ~posts[i].isShared}
CardIds == {posts[i].id : i \in Cards}

\* the comment divs that carry Edit and Delete buttons, and those showing an
\* edit form with Save and Cancel
EditButtonIds ==
    {commentDom[i].id : i \in {j \in 1..Len(commentDom) : commentDom[j].ui = "own"}}
EditFormIds ==
    {commentDom[i].id : i \in {j \in 1..Len(commentDom) : commentDom[j].ui = "edit"}}
Modals == {"commentModal", "userProfileModal"}
IsActive(modal) == IF modal = "commentModal" THEN commentModal ELSE profileModal

\* one more user event is handled
Counted == events < MaxEvents /\ events' = events + 1

\* history of the likes in place, kept beside toggleLike(postId)
LikedFromAfter(postId) ==
    LET u == currentUserId
        others == {[r EXCEPT !.clean = FALSE] :
                      r \in {x \in likedFrom : x.postId = postId /\ x.user # u}}
        rest == {x \in likedFrom : x.postId # postId}
    IN  IF u \in Range(Entry(likes, postId))
        THEN rest \cup others
        ELSE rest \cup others \cup
             {[user |-> u, postId |-> postId,
               before |-> Range(Entry(likes, postId)), clean |-> TRUE]}

ClickCreatePost ==
    Counted /\ UNCHANGED likedFrom /\ \E text \in Texts : createPost(text)
ClickShare ==
    Counted /\ UNCHANGED likedFrom /\ \E i \in ShareCards : sharePost(posts[i].id)
ClickLike ==
    /\ Counted
    /\ \E id \in CardIds : toggleLike(id) /\ likedFrom' = LikedFromAfter(id)
SelectUser == Counted /\ UNCHANGED likedFrom /\ \E u \in Users : changeUser(u)
ClickComment ==
    Counted /\ UNCHANGED likedFrom /\ \E id \in CardIds : openCommentModal(id)
ClickAddComment ==
    /\ Counted /\ UNCHANGED likedFrom
    /\ commentModal
    /\ \E text \in Texts : addComment(text)
ClickEdit ==
    /\ Counted /\ UNCHANGED likedFrom
    /\ commentModal
    /\ \E id \in EditButtonIds : startEditComment(id)
ClickSave ==
    /\ Counted /\ UNCHANGED likedFrom
    /\ commentModal
    /\ \E id \in EditFormIds, text \in Texts : saveEditComment(id, text)
ClickDelete ==
    /\ Counted /\ UNCHANGED likedFrom
    /\ commentModal
    /\ \E id \in EditButtonIds, ok \in BOOLEAN : deleteComment(id, ok)
ClickCancel ==
    Counted /\ UNCHANGED likedFrom /\ commentModal /\ EditFormIds # {} /\ cancelEdit
CloseComments == Counted /\ UNCHANGED likedFrom /\ commentModal /\ closeCommentModal
ClickUser == Counted /\ UNCHANGED likedFrom /\ \E u \in Users : showUserProfile(u)
CloseProfile ==
    Counted /\ UNCHANGED likedFrom /\ profileModal /\ closeUserProfileModal
ClickCloseButton ==
    /\ Counted /\ UNCHANGED likedFrom
    /\ \E m \in Modals : IsActive(m) /\ HideModal(".close-modal", m)
ClickBackdrop ==
    /\ Counted /\ UNCHANGED likedFrom
    /\ \E m \in Modals : IsActive(m) /\ HideModal(".modal", m)
SelectFile ==
    Counted /\ UNCHANGED likedFrom /\ \E t \in FileTypes : handleImageUpload(t)
FileLoaded == UNCHANGED <<events, likedFrom>> /\ readerOnload
ClickRemoveImage ==
    Counted /\ UNCHANGED likedFrom /\ uploadedImage # NoImage /\ removeImage

Next ==
    \/ ClickCreatePost
    \/ ClickShare
    \/ ClickLike
    \/ SelectUser
    \/ ClickComment
    \/ ClickAddComment
    \/ ClickEdit
    \/ ClickSave
    \/ ClickDelete
    \/ ClickCancel
    \/ CloseComments
    \/ ClickUser
    \/ CloseProfile
    \/ ClickCloseButton
    \/ ClickBackdrop
    \/ SelectFile
    \/ FileLoaded
    \/ ClickRemoveImage
    \/ Tick

Spec == Init /\ [][Next]_vars

\* ---------------------------------------------------------------- storage
\* localStorage belongs to the origin, not to the page: the same script in a
\* second tab runs deleteComment on a comment of post `postId`.  This page
\* registers no 'storage' listener, so nothing of it is rendered again.
otherTabDeleteComment(postId, index) ==
    /\ comments' = [comments EXCEPT ![postId] = RemoveAt(comments[postId], index)]
    /\ last' = Done("otherTab.deleteComment", "ok")
    /\ UNCHANGED <<posts, likes, session, now, pendingReads, commentModal,
                   commentDom, profileUi, sideStats>>

OtherTabDelete ==
    /\ Counted /\ UNCHANGED likedFrom
    /\ \E postId \in DOMAIN comments :
          \E index \in 1..Len(comments[postId]) :
              otherTabDeleteComment(postId, index)

NextTabs == Next \/ OtherTabDelete

SpecTabs == Init /\ [][NextTabs]_vars

\* ---------------------------------------------------------------- properties
\* the step handled one user event, and the handler it ran was `op`
Ran(op) == events' = events + 1 /\ last'.op = op

IsBlank(text) == \A i \in 1..Len(text) : text[i] = " "

SharesOf(u, originalPostId) ==
    {i \in Cards : /\ posts[i].isShared
                   /\ posts[i].userId = u
                   /\ posts[i].originalPostId = originalPostId}

\* C1: the posts hold at most one shared post for each pair (userId,
\* originalPostId); a sharePost that finds one already there adds none.
C1_OneSharePerUserAndOriginal ==
    \A i \in Cards :
        posts[i].isShared =>
            Cardinality(SharesOf(posts[i].userId, posts[i].originalPostId)) = 1

C1_Witness ==
    /\ last = Done("sharePost", "You have already shared this post!")
    /\ \E i \in Cards : posts[i].isShared /\ posts[i].userId = currentUserId

\* C2: no two posts of the Posts collection have the same id, also when two
\* posts are created within one clock millisecond.
C2_UniquePostIds ==
    \A i, j \in Cards : i # j => posts[i].id # posts[j].id

\* C3: a createPost with blank content and no staged image, an addComment or
\* saveEditComment with blank text, and a rejected sharePost leave the stored
\* posts, likes and comments as they were.
C3_RejectedLeavesStore ==
    [][
        ( \/ /\ Ran("createPost")
             /\ uploadedImage = NoImage
             /\ \E text \in Texts : IsBlank(text) /\ createPost(text)
          \/ /\ Ran("addComment")
             /\ \E text \in Texts : IsBlank(text) /\ addComment(text)
          \/ /\ Ran("saveEditComment")
             /\ \E id \in EditFormIds, text \in Texts :
                   IsBlank(text) /\ saveEditComment(id, text)
          \/ /\ Ran("sharePost")
             /\ last'.result # "Post shared successfully!" )
        => store' = store
    ]_vars

C3_Witness ==
    /\ last = Done("saveEditComment", "Comment cannot be empty!")
    /\ posts # <<>>
    /\ \E id \in DOMAIN comments : comments[id] # <<>>

\* the record of the current user's like of postId that the step takes back
Unliked(postId) ==
    {r \in likedFrom : r.user = currentUserId /\ r.postId = postId}

\* C4 as stated: the second of two toggleLike(P) by U returns likes[P] to the
\* members and the count it had before the first, whatever other users
\* toggled in between.
C4_PairRestoresLikes ==
    [][ \A id \in CardIds :
            (Ran("toggleLike") /\ toggleLike(id)) =>
                \A r \in Unliked(id) :
                    /\ Range(likes'[id]) = r.before
                    /\ Len(likes'[id]) = Cardinality(r.before)
    ]_vars

\* C4 as amended: the second of two toggleLike(P) by U leaves U out of
\* likes[P], and returns likes[P] to the members and the count it had before
\* the first when no other user toggled P in between.
C4_PairRemovesOwnLike ==
    [][ \A id \in CardIds :
            (Ran("toggleLike") /\ toggleLike(id)) =>
                \A r \in Unliked(id) :
                    /\ currentUserId \notin Range(likes'[id])
                    /\ r.clean =>
                          /\ Range(likes'[id]) = r.before
                          /\ Len(likes'[id]) = Cardinality(r.before)
    ]_vars

\* a like by one user was taken back after another user's like came between
C4_Witness ==
    /\ last.op = "toggleLike"
    /\ \E id \in DOMAIN likes :
          /\ currentUserId \notin Range(likes[id])
          /\ likes[id] # <<>>
          /\ \A r \in likedFrom : r.postId = id => ~r.clean

\* C5: likes[postId] names no user twice, names only ids of the users array,
\* and every key of likes is the id of a post.
C5_LikesWellFormed ==
    \A id \in DOMAIN likes :
        /\ id \in CardIds
        /\ Range(likes[id]) \subseteq Users
        /\ Cardinality(Range(likes[id])) = Len(likes[id])

C5_Witness ==
    \E id \in DOMAIN likes : Len(likes[id]) = 2 /\ last.op = "toggleLike"

\* the step is a click on the Share button of a card of the current user's
\* own post
SharesOwnCard ==
    /\ Ran("sharePost")
    /\ \E i \in ShareCards :
          posts[i].userId = currentUserId /\ sharePost(posts[i].id)

NoSelfShare ==
    \A i \in Cards : posts[i].isShared => posts[i].userId # posts[i].originalUserId

\* C6: sharePost by U of a post P with P.userId = U leaves the posts
\* unchanged, and no shared post has userId equal to its originalUserId.
C6_OwnPostNotShared ==
    [][ /\ SharesOwnCard => posts' = posts
        /\ NoSelfShare'
    ]_vars

MutatingOps ==
    {"createPost", "sharePost", "toggleLike", "addComment", "saveEditComment",
     "deleteComment"}

\* C7: after createPost, sharePost, toggleLike, addComment, saveEditComment
\* and deleteComment the counts shown in the sidebar, and in the profile modal
\* while it is open, are the counts recomputed from the stored posts, likes
\* and comments.
C7_StatsNeverStale ==
    last.op \in MutatingOps =>
        /\ sideStats = Stats(posts, likes, comments, currentUserId)
        /\ profileModal =>
              modalStats = [user |-> modalStats.user]
                           @@ Stats(posts, likes, comments, modalStats.user)

\* commentId is not among the comments stored under the current post
AbsentComment(commentId) ==
    \A i \in 1..Len(Entry(comments, currentPostId)) :
        comments[currentPostId][i].id # commentId

\* C8: saveEditComment on a commentId that is not stored under the current
\* post ends in a NotFound outcome, with the comments unchanged.
C8_EditAbsentIsNotFound ==
    [][ \A id \in EditFormIds, text \in Texts :
            ( /\ Ran("saveEditComment")
              /\ AbsentComment(id)
              /\ ~IsBlank(text)
              /\ saveEditComment(id, text) )
            => last'.result = "NotFound" /\ comments' = comments
    ]_vars

\* the author of the comment commentId resolves to under the current post
TargetAuthor(commentId) ==
    LET postComments == Entry(comments, currentPostId)
        found == IndexOfId(postComments, commentId)
    IN  IF found = 0 THEN NoId ELSE postComments[found].userId

\* C9: saveEditComment and deleteComment are only ever invoked on a comment
\* whose userId is currentUserId at that moment.
C9_OnlyOwnCommentsTouched ==
    [][ /\ \A id \in EditFormIds, text \in Texts :
              (Ran("saveEditComment") /\ saveEditComment(id, text))
              => TargetAuthor(id) = currentUserId
        /\ \A id \in EditButtonIds, ok \in BOOLEAN :
              (Ran("deleteComment") /\ deleteComment(id, ok))
              => TargetAuthor(id) = currentUserId
    ]_vars

\* the step is a createPost or sharePost that went through
AddsPost ==
    \/ Ran("createPost") /\ last'.result = "ok"
    \/ Ran("sharePost") /\ last'.result = "Post shared successfully!"

\* C10: a createPost or sharePost that goes through puts the new post at
\* index 0 and keeps the earlier posts, unchanged and in order, behind it; no
\* other step changes the posts.
C10_PostsAppendOnly ==
    [][ IF AddsPost
        THEN /\ Len(posts') = Len(posts) + 1
             /\ posts'[1].userId = currentUserId
             /\ \A i \in Cards : posts'[i + 1] = posts[i]
        ELSE posts' = posts
    ]_vars

C10_Witness ==
    /\ Len(posts) = 3
    /\ posts[1].isShared
    /\ ~posts[2].isShared
    /\ last.op = "sharePost"

\* every stored comment, as the post id and the position it is stored at
StoredComments ==
    UNION {{<<id, i>> : i \in 1..Len(comments[id])} : id \in DOMAIN comments}

\* C11: no two stored comments, under the same post or under different
\* posts, have the same id, also when two comments are added within one
\* clock millisecond.
C11_UniqueCommentIds ==
    \A a, b \in StoredComments :
        a # b => comments[a[1]][a[2]].id # comments[b[1]][b[2]].id

\* the comment divs of commentId that show the buttons or the form `ui`
DivsOf(commentId, ui) ==
    {j \in 1..Len(commentDom) :
        commentDom[j].id = commentId /\ commentDom[j].ui = ui}

\* the step is a comment handler that wrote the comments
WritesComments ==
    /\ last'.result = "ok"
    /\ Ran("addComment") \/ Ran("saveEditComment") \/ Ran("deleteComment")

\* C12: addComment appends the new comment at the end of the current
\* post's comments; saveEditComment replaces only the text of the comment
\* whose form was saved; deleteComment removes the comment whose Delete
\* button was clicked, keeps the others in order and keeps an emptied
\* sequence as an empty sequence; no other step changes the comments.
C12_CommentsInInsertionOrder ==
    [][ /\ (Ran("addComment") /\ last'.result = "ok") =>
              /\ currentPostId \in DOMAIN comments'
              /\ comments' =
                    Put(comments, currentPostId,
                        Append(Entry(comments, currentPostId),
                               comments'[currentPostId]
                                        [Len(comments'[currentPostId])]))
        /\ \A id \in EditFormIds, text \in Texts :
              ( /\ Ran("saveEditComment") /\ last'.result = "ok"
                /\ saveEditComment(id, text) )
              => \A j \in DivsOf(id, "edit") :
                    comments' = [comments EXCEPT
                                    ![currentPostId][j].text = Trim(text)]
        /\ \A id \in EditButtonIds :
              ( /\ Ran("deleteComment") /\ last'.result = "ok"
                /\ deleteComment(id, TRUE) )
              => \A j \in DivsOf(id, "own") :
                    comments' = [comments EXCEPT
                                    ![currentPostId] = RemoveAt(@, j)]
        /\ ~WritesComments => comments' = comments
    ]_vars

\* createPost has just succeeded or removeImage has just run
ImageJustCleared ==
    \/ last.op = "createPost" /\ last.result = "ok"
    \/ last.op = "removeImage"

\* C13: once createPost succeeds or removeImage runs, uploadedImage stays
\* null until a new image file is selected, whatever the order of the
\* FileReader callback of an earlier selection.  A selection only starts a
\* read, so the step that follows the clearing must leave uploadedImage null.
C13_ClearedImageStaysNull ==
    [][ ImageJustCleared => uploadedImage' = NoImage ]_vars

\* C14: currentPostId is non-null exactly while the comment dialog is open,
\* whichever way the dialog was closed (closeCommentModal, the generic close
\* button, a click on the backdrop).
C14_PostIdSetIffDialogOpen ==
    (currentPostId # NoId) <=> commentModal

\* the post at card j is an original that the shared post S was made from
IsOriginalOf(j, S) ==
    /\ posts[j].id = S.originalPostId
    /\ ~posts[j].isShared
    /\ posts[j].userId = S.originalUserId
    /\ posts[j].content = S.content
    /\ posts[j].image = S.image

\* C15: every shared post has originalPostId equal to the id of a stored
\* post that is not itself shared, originalUserId equal to that post's
\* userId, and that post's content and image: no share of a share exists.
C15_SharedPostsPointAtOriginals ==
    \A i \in Cards : posts[i].isShared => \E j \in Cards : IsOriginalOf(j, posts[i])

====
